---- MODULE Spec2Model ----
(***************************************************************************)
(* A model of the portfolio generator of src/src/App.tsx: the App          *)
(* component's three pieces of state, the PortfolioForm component's draft  *)
(* (formData) with its five handlers, and the render dispatch that mounts  *)
(* and unmounts the form.                                                  *)
(*                                                                         *)
(* Strings are sequences of characters.  An absent value (null, or the     *)
(* state of an unmounted component) is the empty sequence <<>> and a       *)
(* present one is the one-element sequence <<v>>.  Array positions are     *)
(* 0-based as in the source; the TLA+ sequence holding an array keeps the  *)
(* element of position i at i + 1.                                         *)
(***************************************************************************)
EXTENDS Integers, Sequences, FiniteSets, TLC

VARIABLES
    portfolioData,      \* App: PortfolioData | null
    selectedTemplate,   \* App: the template identifier
    showFullPortfolio,  \* App: the full-layout flag
    formData,           \* PortfolioForm: the draft, while the form is mounted
    edits,              \* number of draft edits since the form was mounted
    lastOp,             \* the handler that ran last, with its arguments
    preAppend,          \* the draft as it was before the addEntry that ran last
    log                 \* SpecOrder: the edits issued since the form was mounted

vars == <<portfolioData, selectedTemplate, showFullPortfolio, formData,
          edits, lastOp, preAppend, log>>

----------------------------------------------------------------------------
(* Bounds of the model *)

\* edits of the draft explored per mounting of the form
MaxEdits == 4

\* length of the skills strings enumerated by SpecSkills
MaxSkillsLen == 4

\* edits of a mounting that SpecUpdateApi lets be updates at any position
MaxUpdates == 2

----------------------------------------------------------------------------
(* Input domains *)

Whitespace == {" "}

Chars == {"a", "b", ",", " "}

\* the values typed into a field by the edit actions of Spec
FieldValues == {<<>>, <<"a">>}

Templates == {"template1", "template2"}

ScalarFields == {"name", "title", "email", "phone", "location", "bio",
                 "profilePicture", "linkedin", "github", "website", "twitter"}

ArrayFields == {"experience", "education", "projects"}

\* the name attributes of the inputs wired to handleChange
ChangeNames == ScalarFields \cup {"skills"}

\* the sub-fields the form wires to handleArrayChange, per list
SubFieldsOf(field) ==
    CASE field = "experience" -> {"title", "company", "dates", "description"}
      [] field = "education"  -> {"degree", "institution", "dates", "description"}
      [] field = "projects"   -> {"name", "description", "technologies",
                                  "projectUrl", "githubUrl"}

RECURSIVE StringsUpTo(_)
StringsUpTo(n) ==
    IF n = 0 THEN {<<>>}
    ELSE LET shorter == StringsUpTo(n - 1)
         IN  shorter \cup {Append(s, c) : s \in shorter, c \in Chars}

----------------------------------------------------------------------------
(* JavaScript values and built-ins used by the handlers *)

EmptyFcn == [f \in {} |-> <<>>]

\* an element of an array: an object with some own properties, an
\* undefined value, or a hole (no element at that position)
Obj(props) == [kind |-> "object", props |-> props]
EmptyObject == Obj(EmptyFcn)
Undefined == [kind |-> "undefined", props |-> EmptyFcn]
Hole == [kind |-> "hole", props |-> EmptyFcn]

\* String.prototype.split(',')
RECURSIVE split(_)
split(s) ==
    IF \E i \in 1..Len(s) : s[i] = ","
    THEN LET i == CHOOSE k \in 1..Len(s) :
                      s[k] = "," /\ \A j \in 1..(k - 1) : s[j] # ","
         IN  <<SubSeq(s, 1, i - 1)>> \o split(SubSeq(s, i + 1, Len(s)))
    ELSE <<s>>

RECURSIVE trimStart(_)
trimStart(s) ==
    IF s # <<>> /\ Head(s) \in Whitespace THEN trimStart(Tail(s)) ELSE s

RECURSIVE trimEnd(_)
trimEnd(s) ==
    IF s # <<>> /\ s[Len(s)] \in Whitespace
    THEN trimEnd(SubSeq(s, 1, Len(s) - 1))
    ELSE s

\* the whitespace of the end left in place
trimStartOnly(s) == trimStart(s)

\* String.prototype.trim()
trim(s) == trimEnd(trimStart(s))

\* Array.prototype.join(',')
RECURSIVE join(_)
join(array) ==
    IF array = <<>> THEN <<>>
    ELSE IF Len(array) = 1 THEN array[1]
    ELSE array[1] \o <<",">> \o join(Tail(array))

\* [...array]: a copy in which a hole has become an undefined element
spread(array) ==
    [i \in 1..Len(array) |-> IF array[i] = Hole THEN Undefined ELSE array[i]]

\* { ...element }: the own properties of an object, none of undefined
spreadProps(element) ==
    IF element.kind = "object" THEN element.props ELSE EmptyFcn

----------------------------------------------------------------------------
(* PortfolioForm: the draft and the state updaters of its handlers *)

InitialFormData ==
    [name |-> <<>>, title |-> <<>>, email |-> <<>>, phone |-> <<>>,
     location |-> <<>>, bio |-> <<>>, profilePicture |-> <<>>,
     linkedin |-> <<>>, github |-> <<>>, website |-> <<>>, twitter |-> <<>>,
     skills |-> <<>>,
     experience |-> <<>>, education |-> <<>>, projects |-> <<>>]

\* the update applied to the initial state instead of the previous one
handleChangeFromInitial(prevData, name, value) ==
    [InitialFormData EXCEPT ![name] = value]

\* (prevData) => ({ ...prevData, [name]: value })
handleChange(prevData, name, value) ==
    [prevData EXCEPT ![name] = value]

\* the entry replaced by { [subField]: value }, its other sub-fields dropped
handleArrayChangeNoSpread(prevData, index, field, subField, value) ==
    LET newArray == spread(prevData[field])
        entry    == Obj([f \in {subField} |-> value])
    IN  [prevData EXCEPT ![field] =
            [i \in 1..Len(newArray) |->
                IF i = index + 1 THEN entry ELSE newArray[i]]]

\* newArray[index] = { ...newArray[index], [subField]: value } on a copy of
\* the list.  An index past the end lengthens the array and leaves holes
\* before it; a negative index sets a property that is no element.
handleArrayChange(prevData, index, field, subField, value) ==
    LET newArray == spread(prevData[field])
        old      == IF index >= 0 /\ index < Len(newArray)
                    THEN spreadProps(newArray[index + 1])
                    ELSE EmptyFcn
        entry    == Obj([f \in (DOMAIN old) \cup {subField} |->
                             IF f = subField THEN value ELSE old[f]])
        written  ==
            IF index < 0 THEN newArray
            ELSE [i \in 1..(IF index + 1 > Len(newArray)
                            THEN index + 1 ELSE Len(newArray)) |->
                     IF i = index + 1 THEN entry
                     ELSE IF i <= Len(newArray) THEN newArray[i]
                     ELSE Hole]
    IN  [prevData EXCEPT ![field] = written]

\* the new entry put first: [{}, ...prevData[field]]
addEntryFirst(prevData, field) ==
    [prevData EXCEPT ![field] = <<EmptyObject>> \o spread(prevData[field])]

\* (prevData) => ({ ...prevData, [field]: [...prevData[field], {}] })
addEntry(prevData, field) ==
    [prevData EXCEPT ![field] = Append(spread(prevData[field]), EmptyObject)]

\* the positions, in order, of the elements that filter((_, i) => i !== index)
\* keeps: filter does not visit a hole
RECURSIVE keptPositions(_, _, _)
keptPositions(array, index, i) ==
    IF i > Len(array) THEN <<>>
    ELSE IF array[i] # Hole /\ (i - 1) # index
         THEN <<i>> \o keptPositions(array, index, i + 1)
         ELSE keptPositions(array, index, i + 1)

\* the entry after the one asked for removed: i !== index + 1
removeEntryOffByOne(prevData, field, index) ==
    LET array == prevData[field]
        kept  == keptPositions(array, index + 1, 1)
    IN  [prevData EXCEPT ![field] = [k \in 1..Len(kept) |-> array[kept[k]]]]

\* splice(index, 1) on a copy: a negative index counts from the end
removeEntrySplice(prevData, field, index) ==
    LET array == spread(prevData[field])
        at    == IF index < 0 THEN Len(array) + index ELSE index
        kept  == keptPositions(array, at, 1)
    IN  [prevData EXCEPT ![field] = [k \in 1..Len(kept) |-> array[kept[k]]]]

\* every entry from the one asked for on removed: slice(0, index)
removeEntryTruncating(prevData, field, index) ==
    [prevData EXCEPT ![field] = SubSeq(prevData[field], 1, index)]

\* (prevData) => ({ ...prevData, [field]: prevData[field].filter(...) })
removeEntry(prevData, field, index) ==
    LET array == prevData[field]
        kept  == keptPositions(array, index, 1)
    IN  [prevData EXCEPT ![field] = [k \in 1..Len(kept) |-> array[kept[k]]]]

\* the empty strings filtered out before, not after, the trimming
parsedSkillsFilterFirst(skills) ==
    LET parts == SelectSeq(split(skills), LAMBDA s : s # <<>>)
    IN  [i \in 1..Len(parts) |-> trim(parts[i])]

\* formData.skills.split(',').map(s => s.trim()).filter(s => s !== '')
parsedSkills(skills) ==
    LET parts   == split(skills)
        trimmed == [i \in 1..Len(parts) |-> trim(parts[i])]
    IN  SelectSeq(trimmed, LAMBDA s : s # <<>>)

\* the entries without any field left out of the record
submittedDataWithoutBlanks(data) ==
    [data EXCEPT !.skills = parsedSkills(data.skills),
                 !.experience = SelectSeq(@, LAMBDA e : e # EmptyObject),
                 !.education = SelectSeq(@, LAMBDA e : e # EmptyObject),
                 !.projects = SelectSeq(@, LAMBDA e : e # EmptyObject)]

\* { ...formData, skills: parsedSkills }
submittedData(data) ==
    [data EXCEPT !.skills = parsedSkills(data.skills)]

----------------------------------------------------------------------------
(* The full page: what each template renders of a record, as the set of    *)
(* the fields and sections it puts on the page                             *)

\* value && ... : a string that is present and not empty
Truthy(props, f) == f \in DOMAIN props /\ props[f] # <<>>

\* the fields rendered of the entries of a list: map does not visit a hole,
\* and reading a field of an undefined entry throws
EntryItems(array, section, always, optional) ==
    UNION {
        IF array[i].kind = "hole" THEN {}
        ELSE IF array[i].kind = "undefined" THEN {<<"TypeError">>}
        ELSE {<<section, i - 1, f>> : f \in always}
             \cup {<<section, i - 1, f>> :
                      f \in {g \in optional : Truthy(array[i].props, g)}}
        : i \in 1..Len(array)}

\* a template whose skills section is guarded by data.skills alone
Template1SkillsAlways(data) ==
    {<<f>> : f \in {"name", "title", "profilePicture", "bio"}}
    \cup {<<f>> : f \in {g \in {"email", "phone", "location", "linkedin",
                                "github", "website", "twitter"} :
                            data[g] # <<>>}}
    \cup {<<"skills">>}
    \cup (IF Len(data.experience) > 0
          THEN {<<"experience">>}
               \cup EntryItems(data.experience, "experience",
                               {"title", "company", "dates", "description"}, {})
          ELSE {})
    \cup (IF Len(data.education) > 0
          THEN {<<"education">>}
               \cup EntryItems(data.education, "education",
                               {"degree", "institution", "dates"},
                               {"description"})
          ELSE {})
    \cup (IF Len(data.projects) > 0
          THEN {<<"projects">>}
               \cup EntryItems(data.projects, "projects",
                               {"name", "description"},
                               {"technologies", "projectUrl", "githubUrl"})
          ELSE {})

\* Template 1: Clean & Minimal
Template1(data) ==
    \* header and About Me
    {<<f>> : f \in {"name", "title", "profilePicture", "bio"}}
    \* Contact and Social
    \cup {<<f>> : f \in {g \in {"email", "phone", "location"} : data[g] # <<>>}}
    \cup {<<f>> : f \in {g \in {"linkedin", "github", "website", "twitter"} :
                            data[g] # <<>>}}
    \cup (IF Len(data.skills) > 0 THEN {<<"skills">>} ELSE {})
    \cup (IF Len(data.experience) > 0
          THEN {<<"experience">>}
               \cup EntryItems(data.experience, "experience",
                               {"title", "company", "dates", "description"}, {})
          ELSE {})
    \cup (IF Len(data.education) > 0
          THEN {<<"education">>}
               \cup EntryItems(data.education, "education",
                               {"degree", "institution", "dates"},
                               {"description"})
          ELSE {})
    \cup (IF Len(data.projects) > 0
          THEN {<<"projects">>}
               \cup EntryItems(data.projects, "projects",
                               {"name", "description"},
                               {"technologies", "projectUrl", "githubUrl"})
          ELSE {})

\* a second template whose header, like the profile card, has no Twitter link
Template2NoTwitter(data) ==
    {<<f>> : f \in {"profilePicture", "name", "title"}}
    \cup {<<f>> : f \in {g \in {"linkedin", "github", "website"} :
                            data[g] # <<>>}}
    \cup {<<"bio">>}
    \cup {<<f>> : f \in {g \in {"email", "phone", "location"} : data[g] # <<>>}}
    \cup (IF Len(data.skills) > 0 THEN {<<"skills">>} ELSE {})
    \cup (IF Len(data.experience) > 0
          THEN {<<"experience">>}
               \cup EntryItems(data.experience, "experience",
                               {"title", "company", "dates", "description"}, {})
          ELSE {})
    \cup (IF Len(data.education) > 0
          THEN {<<"education">>}
               \cup EntryItems(data.education, "education",
                               {"degree", "institution", "dates"},
                               {"description"})
          ELSE {})
    \cup (IF Len(data.projects) > 0
          THEN {<<"projects">>}
               \cup EntryItems(data.projects, "projects",
                               {"name", "description"},
                               {"technologies", "projectUrl", "githubUrl"})
          ELSE {})

\* Template 2: Modern & Bold
Template2(data) ==
    \* header, with the social links
    {<<f>> : f \in {"profilePicture", "name", "title"}}
    \cup {<<f>> : f \in {g \in {"linkedin", "github", "website", "twitter"} :
                            data[g] # <<>>}}
    \* About Me, Contact and Skills
    \cup {<<"bio">>}
    \cup {<<f>> : f \in {g \in {"email", "phone", "location"} : data[g] # <<>>}}
    \cup (IF Len(data.skills) > 0 THEN {<<"skills">>} ELSE {})
    \cup (IF Len(data.experience) > 0
          THEN {<<"experience">>}
               \cup EntryItems(data.experience, "experience",
                               {"title", "company", "dates", "description"}, {})
          ELSE {})
    \cup (IF Len(data.education) > 0
          THEN {<<"education">>}
               \cup EntryItems(data.education, "education",
                               {"degree", "institution", "dates"},
                               {"description"})
          ELSE {})
    \cup (IF Len(data.projects) > 0
          THEN {<<"projects">>}
               \cup EntryItems(data.projects, "projects",
                               {"name", "description"},
                               {"technologies", "projectUrl", "githubUrl"})
          ELSE {})

\* a dispatch that tests for the first template instead of the second
TemplateComponentFirstTested(template) ==
    IF template = "template1" THEN "Template1" ELSE "Template2"

\* template === 'template2' ? Template2 : Template1
TemplateComponent(template) ==
    IF template = "template2" THEN "Template2" ELSE "Template1"

\* PortfolioPage: the variant chosen and what it renders
PortfolioPage(data, template) ==
    [variant |-> TemplateComponent(template),
     items   |-> IF TemplateComponent(template) = "Template2"
                 THEN Template2(data)
                 ELSE Template1(data)]

----------------------------------------------------------------------------
(* History *)

Op(op, field, index, subField, value) ==
    [op |-> op, field |-> field, index |-> index,
     subField |-> subField, value |-> value]

NoArgs(op) == Op(op, "", -1, "", <<>>)

----------------------------------------------------------------------------
(* App: what the render dispatch shows *)

FormShown == portfolioData = <<>>
CardShown == portfolioData # <<>> /\ ~showFullPortfolio
PageShown == portfolioData # <<>> /\ showFullPortfolio

DisplayMode ==
    IF PageShown THEN "FULL"
    ELSE IF CardShown THEN "SUMMARY"
    ELSE "EDITING"

\* the form mounted with the values of the record being discarded
MountFormFromRecord ==
    /\ formData' = <<[portfolioData[1] EXCEPT !.skills = join(@)]>>
    /\ edits' = 0
    /\ preAppend' = <<>>

\* the form is mounted with the initial state of its useState
MountForm ==
    /\ formData' = <<InitialFormData>>
    /\ edits' = 0
    /\ preAppend' = <<>>

----------------------------------------------------------------------------
(* Actions *)

Init ==
    /\ portfolioData = <<>>
    /\ selectedTemplate = "template1"
    /\ showFullPortfolio = FALSE
    /\ formData = <<InitialFormData>>
    /\ edits = 0
    /\ lastOp = NoArgs("init")
    /\ preAppend = <<>>
    /\ log = <<>>

\* radio inputs that every view shows
SetSelectedTemplateAnywhere(template) ==
    /\ selectedTemplate' = template
    /\ lastOp' = Op("setSelectedTemplate", template, -1, "", <<>>)
    /\ UNCHANGED <<portfolioData, showFullPortfolio, formData, edits, preAppend>>

\* the radio inputs of the form
SetSelectedTemplate(template) ==
    /\ FormShown
    /\ selectedTemplate' = template
    /\ lastOp' = Op("setSelectedTemplate", template, -1, "", <<>>)
    /\ UNCHANGED <<portfolioData, showFullPortfolio, formData, edits, preAppend>>

\* an edit of the draft: the state updater applied to the current draft
Edit(newData, op) ==
    /\ FormShown
    /\ edits < MaxEdits
    /\ formData' = <<newData>>
    /\ edits' = edits + 1
    /\ lastOp' = op
    /\ UNCHANGED <<portfolioData, selectedTemplate, showFullPortfolio>>

\* a handler that closes over the draft of the first render
DoHandleChangeStale(name, value) ==
    /\ Edit(handleChange(InitialFormData, name, value),
            Op("handleChange", name, -1, "", value))
    /\ preAppend' = <<>>

DoHandleChange(name, value) ==
    /\ Edit(handleChange(formData[1], name, value),
            Op("handleChange", name, -1, "", value))
    /\ preAppend' = <<>>

DoHandleArrayChange(index, field, subField, value) ==
    /\ Edit(handleArrayChange(formData[1], index, field, subField, value),
            Op("handleArrayChange", field, index, subField, value))
    /\ preAppend' = <<>>

DoAddEntry(field) ==
    /\ Edit(addEntry(formData[1], field), Op("addEntry", field, -1, "", <<>>))
    /\ preAppend' = formData

\* preAppend is kept by the removal of the entry that was just appended
DoRemoveEntry(field, index) ==
    /\ Edit(removeEntry(formData[1], field, index),
            Op("removeEntry", field, index, "", <<>>))
    /\ preAppend' = IF /\ lastOp.op = "addEntry"
                       /\ lastOp.field = field
                       /\ index = Len(formData[1][field]) - 1
                    THEN preAppend
                    ELSE <<>>

\* a submit that returns early on a draft without a name
handleSubmitValidating(data) ==
    /\ data.name # <<>>
    /\ portfolioData' = <<data>>
    /\ showFullPortfolio' = FALSE

\* App.handleSubmit
handleSubmit(data) ==
    /\ portfolioData' = <<data>>
    /\ showFullPortfolio' = FALSE

\* PortfolioForm.handleSubmit; the render that follows unmounts the form
FormHandleSubmit ==
    /\ FormShown
    /\ handleSubmit(submittedData(formData[1]))
    /\ formData' = <<>>
    /\ lastOp' = NoArgs("submit")
    /\ preAppend' = <<>>
    /\ UNCHANGED <<selectedTemplate, edits>>

\* a click on the profile card
handleCardClick ==
    /\ CardShown
    /\ showFullPortfolio' = TRUE
    /\ lastOp' = NoArgs("handleCardClick")
    /\ UNCHANGED <<portfolioData, selectedTemplate, formData, edits, preAppend>>

\* a Back button that clears the record and leaves the flag set
handleBackKeepingFlag ==
    /\ PageShown
    /\ portfolioData' = <<>>
    /\ MountForm
    /\ lastOp' = NoArgs("handleBackToForm")
    /\ UNCHANGED <<selectedTemplate, showFullPortfolio>>

\* a Back button that leaves the record in place
handleBackKeepingData ==
    /\ PageShown
    /\ showFullPortfolio' = FALSE
    /\ lastOp' = NoArgs("handleBackToForm")
    /\ UNCHANGED <<portfolioData, selectedTemplate, formData, edits, preAppend>>

\* the Back to Form button of the full page
handleBackToForm ==
    /\ PageShown
    /\ showFullPortfolio' = FALSE
    /\ portfolioData' = <<>>
    /\ MountForm
    /\ lastOp' = NoArgs("handleBackToForm")
    /\ UNCHANGED selectedTemplate

\* a Reset button that stores an empty record instead of null
onResetToEmptyRecord ==
    /\ CardShown
    /\ portfolioData' = <<submittedData(InitialFormData)>>
    /\ lastOp' = NoArgs("onReset")
    /\ UNCHANGED <<selectedTemplate, showFullPortfolio, formData, edits,
                   preAppend>>

\* a Reset button that also puts the template back to the default
onResetDefaultTemplate ==
    /\ CardShown
    /\ portfolioData' = <<>>
    /\ selectedTemplate' = "template1"
    /\ MountForm
    /\ lastOp' = NoArgs("onReset")
    /\ UNCHANGED showFullPortfolio

\* the Reset button of the profile card
onReset ==
    /\ CardShown
    /\ portfolioData' = <<>>
    /\ MountForm
    /\ lastOp' = NoArgs("onReset")
    /\ UNCHANGED <<selectedTemplate, showFullPortfolio>>

\* the positions for which the form renders inputs and a remove button
Positions(field) ==
    IF formData = <<>> THEN {} ELSE 0..(Len(formData[1][field]) - 1)

Next ==
    \/ /\ \E template \in Templates : SetSelectedTemplate(template)
       /\ UNCHANGED log
    \/ /\ \E name \in ChangeNames, value \in FieldValues :
             DoHandleChange(name, value)
       /\ UNCHANGED log
    \/ /\ \E field \in ArrayFields :
             \E index \in Positions(field), subField \in SubFieldsOf(field),
                value \in FieldValues :
                DoHandleArrayChange(index, field, subField, value)
       /\ UNCHANGED log
    \/ /\ \E field \in ArrayFields : DoAddEntry(field)
       /\ UNCHANGED log
    \/ /\ \E field \in ArrayFields :
             \E index \in Positions(field) : DoRemoveEntry(field, index)
       /\ UNCHANGED log
    \/ /\ FormHandleSubmit
       /\ UNCHANGED log
    \/ /\ handleCardClick
       /\ UNCHANGED log
    \/ /\ handleBackToForm
       /\ UNCHANGED log
    \/ /\ onReset
       /\ UNCHANGED log

Spec == Init /\ [][Next]_vars

----------------------------------------------------------------------------
(* The skills field: every string up to MaxSkillsLen, and the string of    *)
(* the specification's example, typed into the skills textarea             *)

\* " React, , Node.js ,Node.js"
SkillsExample ==
    <<" ", "R", "e", "a", "c", "t", ",", " ", ",", " ", "N", "o", "d", "e",
      ".", "j", "s", " ", ",", "N", "o", "d", "e", ".", "j", "s">>

SkillsInputs == StringsUpTo(MaxSkillsLen) \cup {SkillsExample}

NextSkills ==
    \/ /\ \E value \in SkillsInputs : DoHandleChange("skills", value)
       /\ UNCHANGED log
    \/ /\ FormHandleSubmit
       /\ UNCHANGED log
    \/ /\ handleCardClick
       /\ UNCHANGED log
    \/ /\ handleBackToForm
       /\ UNCHANGED log
    \/ /\ onReset
       /\ UNCHANGED log

SpecSkills == Init /\ [][NextSkills]_vars

----------------------------------------------------------------------------
(* The handlers called with any position, in or out of the range of the    *)
(* list: removeEntry                                                       *)

AnyPosition == -1..MaxEdits

NextApi ==
    \/ /\ \E template \in Templates : SetSelectedTemplate(template)
       /\ UNCHANGED log
    \/ /\ \E name \in ChangeNames, value \in FieldValues :
             DoHandleChange(name, value)
       /\ UNCHANGED log
    \/ /\ \E field \in ArrayFields :
             \E index \in Positions(field), subField \in SubFieldsOf(field),
                value \in FieldValues :
                DoHandleArrayChange(index, field, subField, value)
       /\ UNCHANGED log
    \/ /\ \E field \in ArrayFields : DoAddEntry(field)
       /\ UNCHANGED log
    \/ /\ \E field \in ArrayFields :
             \E index \in AnyPosition : DoRemoveEntry(field, index)
       /\ UNCHANGED log
    \/ /\ FormHandleSubmit
       /\ UNCHANGED log
    \/ /\ handleCardClick
       /\ UNCHANGED log
    \/ /\ handleBackToForm
       /\ UNCHANGED log
    \/ /\ onReset
       /\ UNCHANGED log

SpecApi == Init /\ [][NextApi]_vars

----------------------------------------------------------------------------
(* The list handlers with handleArrayChange called with any position, in   *)
(* or out of the range of the list                                         *)

\* a negative position, the positions of the list, the position of its end
\* and the one after it
UpdatePositions(field) ==
    IF formData = <<>> THEN {} ELSE -1..(Len(formData[1][field]) + 1)

NextUpdateApi ==
    \/ /\ \E field \in ArrayFields :
             \E index \in UpdatePositions(field), subField \in SubFieldsOf(field),
                value \in FieldValues :
                /\ edits < MaxUpdates
                /\ DoHandleArrayChange(index, field, subField, value)
       /\ UNCHANGED log
    \/ /\ \E field \in ArrayFields : DoAddEntry(field)
       /\ UNCHANGED log
    \/ /\ \E field \in ArrayFields :
             \E index \in Positions(field) : DoRemoveEntry(field, index)
       /\ UNCHANGED log
    \/ /\ FormHandleSubmit
       /\ UNCHANGED log
    \/ /\ handleCardClick
       /\ UNCHANGED log
    \/ /\ handleBackToForm
       /\ UNCHANGED log
    \/ /\ onReset
       /\ UNCHANGED log

SpecUpdateApi == Init /\ [][NextUpdateApi]_vars

----------------------------------------------------------------------------
(* The form with a record of the events it handled.  Each handler passes  *)
(* setFormData an updater of the previous draft (lines 131, 141, 152,     *)
(* 160) and React runs the updaters of one event before it delivers the   *)
(* next; log holds the events of the mounted form in the order they were  *)
(* delivered.  The inputs are a part of those of Spec, since every        *)
(* sequence of events is a state of its own here.                         *)

OrderNames == {"name", "skills"}

OrderFields == {"experience", "projects"}

OrderSubFields(field) == IF field = "experience" THEN {"title"} ELSE {"name"}

NextOrder ==
    \/ /\ \E template \in Templates : SetSelectedTemplate(template)
       /\ UNCHANGED log
    \/ /\ \E name \in OrderNames, value \in FieldValues :
             DoHandleChange(name, value)
       /\ log' = Append(log, lastOp')
    \/ /\ \E field \in OrderFields :
             \E index \in Positions(field), subField \in OrderSubFields(field),
                value \in FieldValues :
                DoHandleArrayChange(index, field, subField, value)
       /\ log' = Append(log, lastOp')
    \/ /\ \E field \in OrderFields : DoAddEntry(field)
       /\ log' = Append(log, lastOp')
    \/ /\ \E field \in OrderFields :
             \E index \in Positions(field) : DoRemoveEntry(field, index)
       /\ log' = Append(log, lastOp')
    \/ /\ FormHandleSubmit
       /\ UNCHANGED log
    \/ /\ handleCardClick
       /\ UNCHANGED log
    \/ /\ handleBackToForm
       /\ log' = <<>>
    \/ /\ onReset
       /\ log' = <<>>

SpecOrder == Init /\ [][NextOrder]_vars

----------------------------------------------------------------------------
(* Claims about the skills field *)

Min(S) == CHOOSE x \in S : \A y \in S : x <= y
Max(S) == CHOOSE x \in S : \A y \in S : x >= y

\* The comma-separated segments of s, described by position: a segment lies
\* between two neighbouring delimiters (a comma, or an end of the string),
\* its trimmed text runs from its first to its last non-whitespace
\* character, and a segment without such a character is discarded.
Commas(s) == {i \in 1..Len(s) : s[i] = ","}
SegmentEnd(s, l) == Min({c \in Commas(s) : c > l} \cup {Len(s) + 1})
Content(s, l) == {i \in (l + 1)..(SegmentEnd(s, l) - 1) : s[i] \notin Whitespace}
KeptSegments(s) == {l \in {0} \cup Commas(s) : Content(s, l) # {}}
ExpectedSkills(s) ==
    [k \in 1..Cardinality(KeptSegments(s)) |->
        LET l == CHOOSE x \in KeptSegments(s) :
                     Cardinality({y \in KeptSegments(s) : y < x}) = k - 1
        IN  SubSeq(s, Min(Content(s, l)), Max(Content(s, l)))]

React == <<"R", "e", "a", "c", "t">>
NodeJs == <<"N", "o", "d", "e", ".", "j", "s">>

\* C1: the skills of the Record that submit produces are the comma-separated
\* segments of the draft's skills string, each trimmed, the empty ones
\* discarded, in their order and with duplicates kept; the draft
\* " React, , Node.js ,Node.js" gives ["React", "Node.js", "Node.js"].
C1_SubmitParsesSkills ==
    [][lastOp'.op = "submit" =>
          /\ portfolioData'[1].skills = ExpectedSkills(formData[1].skills)
          /\ formData[1].skills = SkillsExample =>
                 portfolioData'[1].skills = <<React, NodeJs, NodeJs>>]_vars

C1_Witness ==
    /\ lastOp.op = "submit"
    /\ portfolioData # <<>>
    /\ portfolioData[1].skills = <<React, NodeJs, NodeJs>>

\* C2: parsing is idempotent under rejoining: the skills of a submitted
\* Record, joined by commas and parsed again, are the same sequence.
C2_ParseIdempotent ==
    portfolioData # <<>> =>
        parsedSkills(join(portfolioData[1].skills)) = portfolioData[1].skills

C2_Witness ==
    /\ lastOp.op = "submit"
    /\ portfolioData # <<>>
    /\ Len(portfolioData[1].skills) = 2
    /\ portfolioData[1].skills[1] # portfolioData[1].skills[2]
    /\ parsedSkills(join(portfolioData[1].skills)) = portfolioData[1].skills

----------------------------------------------------------------------------
(* Claims about the display mode, submit and reset *)

\* C3: the display mode starts in EDITING, and a step changes it only from
\* EDITING to SUMMARY by submit, from SUMMARY to FULL by expand, or from
\* SUMMARY or FULL to EDITING by reset; never from FULL to SUMMARY nor from
\* EDITING to FULL.
C3_ModeTransitions ==
    /\ DisplayMode = "EDITING"
    /\ [][DisplayMode' # DisplayMode =>
             \/ /\ DisplayMode = "EDITING"
                /\ DisplayMode' = "SUMMARY"
                /\ lastOp'.op = "submit"
             \/ /\ DisplayMode = "SUMMARY"
                /\ DisplayMode' = "FULL"
                /\ lastOp'.op = "handleCardClick"
             \/ /\ DisplayMode \in {"SUMMARY", "FULL"}
                /\ DisplayMode' = "EDITING"
                /\ lastOp'.op \in {"onReset", "handleBackToForm"}]_vars

C3_Witness ==
    /\ lastOp.op = "handleBackToForm"
    /\ DisplayMode = "EDITING"
    /\ selectedTemplate = "template2"

AllEmpty(data) ==
    /\ \A f \in ScalarFields \cup {"skills"} : data[f] = <<>>
    /\ \A f \in ArrayFields : Len(data[f]) = 0

\* C4: submit is total: it can be taken on every draft, the all-empty one
\* included, and right after it a Record is stored, the full-layout flag is
\* false and the display mode is SUMMARY.
C4_SubmitTotal ==
    /\ FormShown => ENABLED FormHandleSubmit
    /\ lastOp.op = "submit" =>
          /\ portfolioData # <<>>
          /\ ~showFullPortfolio
          /\ DisplayMode = "SUMMARY"

C4_Witness ==
    /\ lastOp.op = "submit"
    /\ portfolioData # <<>>
    /\ AllEmpty(portfolioData[1])
    /\ DisplayMode = "SUMMARY"

\* C5: right after a reset, from SUMMARY or from FULL, the Record is absent,
\* the display mode is EDITING and the draft is the initial empty draft:
\* every scalar field and the skills string empty, the three lists empty.
C5_ResetEmptiesDraft ==
    lastOp.op \in {"onReset", "handleBackToForm"} =>
        /\ portfolioData = <<>>
        /\ DisplayMode = "EDITING"
        /\ Len(formData) = 1
        /\ AllEmpty(formData[1])
        /\ DOMAIN formData[1] = ScalarFields \cup {"skills"} \cup ArrayFields

C5_Witness ==
    /\ lastOp.op = "handleBackToForm"
    /\ portfolioData = <<>>
    /\ formData # <<>>
    /\ AllEmpty(formData[1])

----------------------------------------------------------------------------
(* Claims about the sub-record lists of the draft *)

\* every component of the draft but the list `field` is the same in both
SameButList(old, new, field) ==
    /\ DOMAIN new = DOMAIN old
    /\ \A f \in DOMAIN old : f # field => new[f] = old[f]

InRange(data, op) ==
    op.index >= 0 /\ op.index < Len(data[op.field])

\* C6: removing position i, 0 <= i < n, of a list of length n gives a list
\* of length n - 1 whose element at j < i is unchanged and whose element at
\* j >= i is the one that was at j + 1; the other two lists and the scalar
\* fields of the draft are unchanged.
C6_RemoveShiftsDown ==
    [][(lastOp'.op = "removeEntry" /\ InRange(formData[1], lastOp')) =>
          LET old == formData[1]
              new == formData'[1]
              k   == lastOp'.field
              i   == lastOp'.index
              n   == Len(old[k])
          IN  /\ Len(new[k]) = n - 1
              /\ \A j \in 0..(n - 2) :
                    new[k][j + 1] = IF j < i THEN old[k][j + 1]
                                             ELSE old[k][j + 2]
              /\ SameButList(old, new, k)]_vars

C6_Witness ==
    /\ lastOp.op = "removeEntry"
    /\ lastOp.index = 0
    /\ edits = 4
    /\ Len(formData[1][lastOp.field]) = 1
    /\ formData[1][lastOp.field][1] # EmptyObject

\* C7: removing a position outside 0..n-1, any position of an empty list
\* included, leaves the draft unchanged.
C7_RemoveOutOfRangeNoOp ==
    [][(lastOp'.op = "removeEntry" /\ ~InRange(formData[1], lastOp')) =>
          formData' = formData]_vars

C7_Witness ==
    /\ lastOp.op = "removeEntry"
    /\ Len(formData[1][lastOp.field]) = 2
    /\ ~InRange(formData[1], lastOp)
    /\ edits = 3

\* C8: appending to a list makes that list one longer, puts a sub-record
\* whose every field is empty or absent at the last position, leaves the
\* earlier entries in place and unchanged, and leaves the other lists and
\* the scalar fields unchanged.
C8_AddAppendsEmpty ==
    [][lastOp'.op = "addEntry" =>
          LET old  == formData[1]
              new  == formData'[1]
              k    == lastOp'.field
              n    == Len(old[k])
              last == new[k][n + 1]
          IN  /\ Len(new[k]) = n + 1
              /\ last.kind = "object"
              /\ \A f \in DOMAIN last.props : last.props[f] = <<>>
              /\ \A j \in 1..n : new[k][j] = old[k][j]
              /\ SameButList(old, new, k)]_vars

C8_Witness ==
    /\ lastOp.op = "addEntry"
    /\ Len(formData[1][lastOp.field]) = 2
    /\ formData[1][lastOp.field][1] # EmptyObject
    /\ formData[1][lastOp.field][2] = EmptyObject

\* C9: appending an entry to a list and then removing the position of the
\* appended entry returns the whole draft to what it was before the append.
C9_AddThenRemoveRestores ==
    (lastOp.op = "removeEntry" /\ preAppend # <<>>) => formData = preAppend

C9_Witness ==
    /\ lastOp.op = "removeEntry"
    /\ preAppend # <<>>
    /\ lastOp.index = 1
    /\ Len(formData[1][lastOp.field]) = 1
    /\ formData[1][lastOp.field][1] # EmptyObject

\* C10: an update at an in-range position sets the named sub-field of the
\* entry at that position to the new value and changes nothing else: not
\* the other sub-fields of the entry, nor the other entries of the list,
\* nor its length, nor the other lists, nor the scalar fields.
C10_ArrayChangeSetsOneSubField ==
    [][(lastOp'.op = "handleArrayChange" /\ InRange(formData[1], lastOp')) =>
          LET old == formData[1]
              new == formData'[1]
              k   == lastOp'.field
              i   == lastOp'.index
              sf  == lastOp'.subField
              was == old[k][i + 1]
              now == new[k][i + 1]
          IN  /\ now.kind = "object"
              /\ DOMAIN now.props = DOMAIN was.props \cup {sf}
              /\ now.props[sf] = lastOp'.value
              /\ \A f \in DOMAIN was.props :
                    f # sf => now.props[f] = was.props[f]
              /\ Len(new[k]) = Len(old[k])
              /\ \A j \in 1..Len(old[k]) :
                    j # i + 1 => new[k][j] = old[k][j]
              /\ SameButList(old, new, k)]_vars

C10_Witness ==
    /\ lastOp.op = "handleArrayChange"
    /\ lastOp.value # <<>>
    /\ Len(formData[1][lastOp.field]) = 2
    /\ LET now == formData[1][lastOp.field][lastOp.index + 1]
       IN  /\ Cardinality(DOMAIN now.props) = 2
           /\ \A f \in DOMAIN now.props : now.props[f] # <<>>

\* C11: an update at a position out of the range of its list is a no-op:
\* the list keeps its length and contents and the draft is unchanged.
C11_UpdateOutOfRangeNoOp ==
    [][(lastOp'.op = "handleArrayChange" /\ ~InRange(formData[1], lastOp')) =>
          formData' = formData]_vars

\* C12: a field-level update of a scalar field, or of the skills string,
\* replaces exactly that field of the draft with the new value; the other
\* scalar fields and the three lists are unchanged.
C12_ChangeSetsOneField ==
    [][lastOp'.op = "handleChange" =>
          LET old == formData[1]
              new == formData'[1]
          IN  /\ new[lastOp'.field] = lastOp'.value
              /\ DOMAIN new = DOMAIN old
              /\ \A f \in DOMAIN old :
                    f # lastOp'.field => new[f] = old[f]]_vars

C12_Witness ==
    /\ lastOp.op = "handleChange"
    /\ lastOp.field = "skills"
    /\ formData[1].skills # <<>>
    /\ formData[1].name # <<>>
    /\ formData[1].projects # <<>>

----------------------------------------------------------------------------
(* Claims about the template *)

\* C13, as claimed: a template can be selected in every display mode,
\* whether or not a Record is present.
C13_SelectInEveryMode ==
    \A template \in Templates : ENABLED SetSelectedTemplate(template)

\* C13, amended: a template can be selected exactly while the display mode
\* is EDITING (the form is shown and no Record is present), and a selection
\* makes the chosen identifier the selected template.
C13_SelectWhileEditing ==
    /\ \A template \in Templates :
          (ENABLED SetSelectedTemplate(template)) <=> (DisplayMode = "EDITING")
    /\ lastOp.op = "setSelectedTemplate" =>
          /\ selectedTemplate = lastOp.field
          /\ DisplayMode = "EDITING"

C13_Witness ==
    /\ lastOp.op = "setSelectedTemplate"
    /\ selectedTemplate = "template2"
    /\ formData[1].name # <<>>

\* identifiers that are neither template's
OtherIdentifiers == {"", "template3", "Template2"}

\* C14: the template identifier is the first template initially, and the
\* full view is rendered by exactly one variant: the second iff the
\* identifier is the second template's, the first for every other
\* identifier, unrecognized ones included.
C14_VariantByIdentifier ==
    /\ lastOp.op = "init" => selectedTemplate = "template1"
    /\ PageShown =>
          /\ PortfolioPage(portfolioData[1], selectedTemplate).variant
                = (IF selectedTemplate = "template2" THEN "Template2"
                                                     ELSE "Template1")
          /\ \A id \in OtherIdentifiers \cup {"template1"} :
                PortfolioPage(portfolioData[1], id).variant = "Template1"
          /\ PortfolioPage(portfolioData[1], "template2").variant = "Template2"

C14_Witness ==
    /\ PageShown
    /\ selectedTemplate = "template2"
    /\ PortfolioPage(portfolioData[1], selectedTemplate).variant = "Template2"

\* C15: for every Record the fields and sections on the full page are the
\* same under the second template as under the first.
C15_TemplatesShowSameData ==
    portfolioData # <<>> =>
        PortfolioPage(portfolioData[1], "template1").items
            = PortfolioPage(portfolioData[1], "template2").items

C15_Witness ==
    /\ PageShown
    /\ selectedTemplate = "template2"
    /\ LET items == PortfolioPage(portfolioData[1], selectedTemplate).items
       IN  /\ <<"twitter">> \in items
           /\ <<"projects", 0, "technologies">> \in items
           /\ <<"projects", 0, "githubUrl">> \notin items

Sections == {"skills", "experience", "education", "projects"}

\* C16: under either template each of the skills, experience, education and
\* projects sections is on the full page iff its sequence in the Record is
\* not empty; the Record of an all-empty draft has none of them.
C16_SectionIffNonEmpty ==
    portfolioData # <<>> =>
        \A template \in Templates, section \in Sections :
            (<<section>> \in PortfolioPage(portfolioData[1], template).items)
                <=> (Len(portfolioData[1][section]) > 0)

C16_Witness ==
    /\ PageShown
    /\ AllEmpty(portfolioData[1])
    /\ \A section \in Sections :
          <<section>> \notin
              PortfolioPage(portfolioData[1], selectedTemplate).items

----------------------------------------------------------------------------
(* Claims about the stored Record *)

\* C17: the Record that submit produces equals the draft in every scalar
\* field and in the experience, education and projects lists, entry by
\* entry and in order; skills is the only component whose form differs.
C17_SubmitKeepsAllButSkills ==
    [][lastOp'.op = "submit" =>
          LET draft  == formData[1]
              record == portfolioData'[1]
          IN  /\ DOMAIN record = DOMAIN draft
              /\ \A f \in ScalarFields : record[f] = draft[f]
              /\ \A f \in ArrayFields :
                    /\ Len(record[f]) = Len(draft[f])
                    /\ \A i \in 1..Len(draft[f]) : record[f][i] = draft[f][i]
              /\ \A i \in 1..Len(record.skills) :
                    record.skills[i] \in Seq(Chars) /\ record.skills[i] # <<>>]_vars

C17_Witness ==
    /\ lastOp.op = "submit"
    /\ portfolioData[1].name # <<>>
    /\ portfolioData[1].skills = <<<<"a">>>>
    /\ Len(portfolioData[1].education) = 2
    /\ portfolioData[1].education[1] = EmptyObject
    /\ portfolioData[1].education[2] = EmptyObject

\* C18: in every reachable state the full-layout flag being set implies that
\* a Record is present.
C18_FullImpliesRecord ==
    showFullPortfolio => portfolioData # <<>>

C18_Witness ==
    /\ showFullPortfolio
    /\ portfolioData # <<>>
    /\ lastOp.op = "handleCardClick"

\* C19: from the submit that created it until the next reset, the stored
\* Record keeps the value it had at submit: no step changes a Record that is
\* present before and after the step.
C19_RecordNotModified ==
    [][(portfolioData # <<>> /\ portfolioData' # <<>>) =>
          portfolioData' = portfolioData]_vars

C19_Witness ==
    /\ lastOp.op = "handleCardClick"
    /\ portfolioData[1].bio # <<>>
    /\ portfolioData[1].projects # <<>>

----------------------------------------------------------------------------
(* Claims about the order of the edits *)

\* the draft after one logged edit
ApplyOp(op, data) ==
    CASE op.op = "handleChange" -> handleChange(data, op.field, op.value)
      [] op.op = "handleArrayChange" ->
            handleArrayChange(data, op.index, op.field, op.subField, op.value)
      [] op.op = "addEntry" -> addEntry(data, op.field)
      [] op.op = "removeEntry" -> removeEntry(data, op.field, op.index)

\* the draft after the logged edits, first to last
RECURSIVE Replay(_, _)
Replay(ops, data) ==
    IF ops = <<>> THEN data ELSE Replay(Tail(ops), ApplyOp(Head(ops), data))

\* the positions of the log that hold the given operation on the given field
Issued(op, field) ==
    {i \in 1..Len(log) : log[i].op = op /\ log[i].field = field}

\* C20: the edits take effect in the order issued: the draft after any step
\* is the initial draft with every edit issued since the form was mounted
\* applied first to last, and the record a submit builds is that draft with
\* skills parsed.  In that record a scalar field has the value of the last
\* change issued for it (its initial value when none was) and a list has
\* one entry for each append less one for each removal.
C20_EditsApplyInOrder ==
    [][/\ formData' # <<>> => formData'[1] = Replay(log', InitialFormData)
       /\ lastOp'.op = "submit" =>
             LET record == portfolioData'[1]
             IN  /\ record = submittedData(Replay(log, InitialFormData))
                 /\ \A f \in ScalarFields :
                       record[f] = IF Issued("handleChange", f) = {}
                                   THEN InitialFormData[f]
                                   ELSE log[Max(Issued("handleChange", f))].value
                 /\ \A f \in ArrayFields :
                       Len(record[f]) = Cardinality(Issued("addEntry", f))
                                        - Cardinality(Issued("removeEntry", f))]_vars

\* a record submitted after name was changed twice, to different values, and
\* an entry was appended and given a title
C20_Witness ==
    /\ lastOp.op = "submit"
    /\ portfolioData # <<>>
    /\ \E i, j, k, l \in 1..Len(log) :
          /\ i < j
          /\ log[i].op = "handleChange" /\ log[i].field = "name"
          /\ log[j].op = "handleChange" /\ log[j].field = "name"
          /\ log[i].value # log[j].value
          /\ portfolioData[1].name = log[j].value
          /\ k < l
          /\ log[k].op = "addEntry" /\ log[k].field = "experience"
          /\ log[l].op = "handleArrayChange" /\ log[l].field = "experience"
          /\ log[l].value # <<>>

----------------------------------------------------------------------------
(* Claims about the selected template across the views *)

\* the steps that leave the form or come back to it
ViewSteps == {"submit", "handleCardClick", "handleBackToForm", "onReset"}

\* C21: submit, expand (the click on the card) and both resets leave the
\* selected template as it was, and the form a reset shows again has the
\* initial, empty draft with the template selected before the reset.
C21_TemplateKeptAcrossViews ==
    [][lastOp'.op \in ViewSteps =>
          /\ selectedTemplate' = selectedTemplate
          /\ lastOp'.op \in {"handleBackToForm", "onReset"} =>
                /\ FormShown'
                /\ formData' = <<InitialFormData>>]_vars

\* the form shown again by the Reset button of the card, with the initial
\* draft and template2, which is not the default, still selected
C21_Witness ==
    /\ lastOp.op = "onReset"
    /\ FormShown
    /\ formData = <<InitialFormData>>
    /\ selectedTemplate = "template2"

============================================================================
